---------------------------- MODULE Spec2Model ----------------------------
(***************************************************************************)
(* Model of the realtime console (ConsolePage): the event aggregator, the  *)
(* connection manager, the capture handlers and the tool handlers.         *)
(*                                                                         *)
(* JavaScript values that may be undefined or NaN are tagged records       *)
(* [t, v]; JavaScript objects are functions from field names to values.    *)
(***************************************************************************)
EXTENDS Integers, Sequences, FiniteSets, Bags, TLC

VARIABLES
  realtimeEvents,   \* React state: the event log
  memoryKv,         \* React state: the MemoryMap
  modalities,       \* protocol session configuration: response modalities
  renderError,      \* React: a state updater threw, the component tree was unmounted
  evSeq,            \* number of 'realtime.event' notifications since the last log reset
  runs,             \* history: the maximal same-type runs observed since the last log reset
  lastRequests,     \* history: the 'requests' entry of the last rate-limit update handled
  isConnected,      \* React state: the connect/disconnect button shows 'disconnect'
  canPushToTalk,    \* React state: the push-to-talk button is offered
  toggleValue,      \* the position of the manual/vad toggle
  items,            \* React state: the conversation view
  clientConnected,  \* protocol layer: client.isConnected()
  turnDetection,    \* protocol layer: the session's turn detection ("none" or "server_vad")
  convItems,        \* protocol layer: client.conversation.getItems()
  recorder,         \* capture pipeline: [begun, status, lastCall]
  player,           \* playback pipeline: [connected, track]
  frames,           \* frames handed to appendInputAudio since capture last started
  timers,           \* pending reconnect timers, oldest first: [remaining, elapsed, stale], stale
                    \* once a manual disconnect was issued before the delay elapsed
  connRuns,         \* connectConversation calls in flight: a bag of [origin, pc]
  discRuns,         \* disconnectConversation calls in flight: a bag of [pc, fresh]
  startRuns,        \* startRecording calls in flight: a bag of [pc, track]
  stopRuns,         \* stopRecording calls in flight: a bag of [pc]
  changeRuns,       \* changeTurnEndType calls in flight: a bag of [value, pc]
  gesture,          \* history of the push-to-talk button: [phase, created], created counting the
                    \* createResponse() calls since the last press
  decodeRuns,       \* 'conversation.updated' handlers awaiting WavRecorder.decode: a bag of [item, items]
  files,            \* item.formatted.file of each item id: how often a handle was set, 0 for none
  deleteSent,       \* history: the ids handed to client.deleteItem in this conversation
  console,          \* the last line the connection manager wrote to the console
  discPhase,        \* history: "pending" from a disconnect click, "done" once it completed, "rejected"
                    \* when client.disconnect() threw, "none" from the next connect
  switchPhase,      \* history: "paused" once a switch to manual paused capture, "resumed" once a switch back restarted it
  relayUrl,         \* LOCAL_RELAY_SERVER_URL, "" when it is not configured
  marker,           \* React state: the map marker, <<>> when null
  coords,           \* React state: the map coordinates
  toolRuns,         \* tool invocations in flight: a bag of [name, args, pc, ret, body, failed]
  toolOutput,       \* the last function_call_output, with the steps that failed and the stores
                    \* written: <<[name, output, failed, wrote]>>
  persist,          \* persistence: [external, local, load, from, previous, accepted], the map last
                    \* written to the external store, the map under 'app_memory' in localStorage,
                    \* loadMemory's position and the place it took the MemoryMap from, the map
                    \* localStorage held when the page was opened,
                    \* the keys of the set_memory calls whose POST an endpoint accepted
  memoryFile,       \* memory service: memory.json, [exists, data]
  memories,         \* memory service: the documents of the 'memories' collection, oldest first
  memory_logs,      \* memory service: the rows of the memory_logs table
  postRuns,         \* memory service: the POST /memory handler in flight, <<[body, pc]>> or <<>>
  http              \* history: the requests the memory service answered, in the order of the answers

aggVars == <<realtimeEvents, evSeq, runs, lastRequests, modalities, renderError>>

logVars == <<aggVars, memoryKv>>

toolVars == <<relayUrl, marker, coords, toolRuns, toolOutput, persist>>

serviceVars == <<memoryFile, memories, memory_logs, postRuns, http>>

dataVars == <<logVars, toolVars, serviceVars>>

uiVars == <<isConnected, canPushToTalk, toggleValue>>

clientVars == <<clientConnected, turnDetection, convItems>>

audioVars == <<recorder, player, frames, switchPhase>>

connVars == <<timers, connRuns, discRuns, console, discPhase>>

captureVars == <<startRuns, stopRuns, changeRuns, gesture>>

viewVars == <<items, decodeRuns, files, deleteSent>>

sessionVars == <<uiVars, clientVars, audioVars, connVars, captureVars, viewVars>>

vars == <<dataVars, sessionVars>>

(***************************************************************************)
(* Bounds of the model.                                                    *)
(***************************************************************************)
MaxEvents == 4

MaxSessionEvents == 1

MaxInFlight == 1

MaxTimers == 1

MaxItems == 1

MaxFrames == 1

\* Requests the memory service answers.
MaxRequests == 3

\* Handles after which a completed item is not notified again.
MaxDecodes == 2

\* createResponse() calls after which the button is not released again before a press.
MaxCreated == 2

\* set_memory handlers that run at the same time.
MaxCalls == 2

(***************************************************************************)
(* JavaScript values.                                                      *)
(***************************************************************************)
Undefined == [t |-> "undefined", v |-> 0]

NaN == [t |-> "NaN", v |-> 0]

Num(n) == [t |-> "number", v |-> n]

\* o[k] in JavaScript: undefined when o has no own property k.
Get(o, k) == IF k \in DOMAIN o THEN o[k] ELSE Undefined

\* (x || 0) for a count that is undefined or a number.
OrZero(x) == IF x.t = "number" THEN x.v ELSE 0

\* Math.ceil(x / 60): NaN when x is undefined or NaN.
CeilDiv60(x) == IF x.t = "number" THEN Num(-((-(x.v)) \div 60)) ELSE NaN

(***************************************************************************)
(* Event aggregator.                                                       *)
(***************************************************************************)
SPEECH_STARTED == "input_audio_buffer.speech_started"

RATE_LIMITS_UPDATED == "rate_limits.updated"

AUDIO_DELTA == "response.audio.delta"

AllModalities == {"audio", "text"}

\* A limit entry of a rate_limits.updated event.
Limit(name, secs) == [name |-> name, limit |-> Num(100), reset_seconds |-> Num(secs)]

ResetSeconds == {0, 1, 60, 125}

\* The rate_limits payloads drawn: none (the field is absent), or a list of entries.
RateLimitPayloads ==
  {<<>>}
    \cup {<<Limit("tokens", 30)>>}
    \cup {<<Limit("requests", s), Limit("tokens", 30)>> : s \in ResetSeconds}

\* The event envelopes drawn for a notification numbered n.
EventsAt(n) ==
  {[type |-> AUDIO_DELTA, seq |-> n, has_rate_limits |-> FALSE, is_list |-> FALSE, rate_limits |-> <<>>],
   [type |-> SPEECH_STARTED, seq |-> n, has_rate_limits |-> FALSE, is_list |-> FALSE, rate_limits |-> <<>>],
   [type |-> RATE_LIMITS_UPDATED, seq |-> n, has_rate_limits |-> FALSE, is_list |-> FALSE,
    rate_limits |-> <<>>]}
    \cup {[type |-> RATE_LIMITS_UPDATED, seq |-> n, has_rate_limits |-> TRUE, is_list |-> TRUE,
           rate_limits |-> p] : p \in RateLimitPayloads}

\* A 'requests' entry that carries no reset_seconds.
LimitWithoutReset == [name |-> "requests", limit |-> Num(100)]

\* rate_limits.updated envelopes whose rate_limits is an object keyed by name instead
\* of a list, or whose 'requests' entry carries no reset_seconds.
MalformedAt(n) ==
  {[type |-> RATE_LIMITS_UPDATED, seq |-> n, has_rate_limits |-> TRUE, is_list |-> FALSE,
    rate_limits |-> [requests |-> Limit("requests", 60)]],
   [type |-> RATE_LIMITS_UPDATED, seq |-> n, has_rate_limits |-> TRUE, is_list |-> TRUE,
    rate_limits |-> <<LimitWithoutReset, Limit("tokens", 30)>>]}

\* rate_limits.find(limit => limit.name === 'requests'): the indexes that match.
RequestsIdx(list) == {i \in 1..Len(list) : list[i].name = "requests"}

FindRequests(list) == list[CHOOSE i \in RequestsIdx(list) : \A j \in RequestsIdx(list) : i <= j]

\* { ...requestsLimit, reset_minutes: Math.ceil(reset_seconds / 60), reset_seconds: undefined }
FormattedLimit(requestsLimit) ==
  [k \in DOMAIN requestsLimit \cup {"reset_minutes", "reset_seconds"} |->
     IF k = "reset_minutes" THEN CeilDiv60(Get(requestsLimit, "reset_seconds"))
     ELSE IF k = "reset_seconds" THEN Undefined
     ELSE requestsLimit[k]]

\* { ...prev, [key]: value }
Spread(prev, key, value) ==
  [k \in DOMAIN prev \cup {key} |-> IF k = key THEN value ELSE prev[k]]

\* A merge test that looks at the first entry of the log instead of the last one.
SameTypeAsFirst(log, ev) == Len(log) > 0 /\ log[1].event.type = ev.type

\* lastEvent?.event.type === realtimeEvent.event.type
SameTypeAsLast(log, ev) == Len(log) > 0 /\ log[Len(log)].event.type = ev.type

\* lastEvent.count = (lastEvent.count || 0) + 1
MergedCount(count) == Num(OrZero(count) + 1)

\* A merge that raises the count of the first entry of the log instead of the last one.
MergeIntoFirst(log) == [log EXCEPT ![1].count = MergedCount(@)]

\* realtimeEvents.slice(0, -1).concat(lastEvent), lastEvent carrying the raised count.
MergeIntoLast(log) == [log EXCEPT ![Len(log)].count = MergedCount(@)]

\* The history of runs, kept beside the log: it is what the log is compared with.
ObserveRun(rs, ev) ==
  IF Len(rs) > 0 /\ rs[Len(rs)].type = ev.type
    THEN [rs EXCEPT ![Len(rs)].n = @ + 1]
    ELSE Append(rs, [type |-> ev.type, n |-> 1])

\* rate_limits.find is not a function when rate_limits is truthy and not an array:
\* the updater throws a TypeError, unless the event is merged before it gets there.
FindThrows(log, ev) ==
  /\ ~SameTypeAsLast(log, ev)
  /\ ev.type = RATE_LIMITS_UPDATED /\ ev.has_rate_limits /\ ~ev.is_list

\* client.on('realtime.event', ...): the state updater of the event log.  An updater
\* that throws leaves the states as they were and unmounts the component tree.
OnRealtimeEvent(ev) ==
  /\ evSeq' = evSeq + 1
  /\ runs' = ObserveRun(runs, ev)
  /\ lastRequests' =
       IF ev.type = RATE_LIMITS_UPDATED /\ ev.has_rate_limits /\ ev.is_list
            /\ RequestsIdx(ev.rate_limits) # {}
         THEN <<FindRequests(ev.rate_limits)>>
         ELSE lastRequests
  /\ renderError' = FindThrows(realtimeEvents, ev)
  /\ IF FindThrows(realtimeEvents, ev)
       THEN UNCHANGED <<realtimeEvents, memoryKv, modalities>>
       ELSE IF SameTypeAsLast(realtimeEvents, ev)
       THEN /\ realtimeEvents' = MergeIntoLast(realtimeEvents)
            /\ UNCHANGED <<memoryKv, modalities>>
       ELSE /\ modalities' = IF ev.type = SPEECH_STARTED THEN AllModalities ELSE modalities
            /\ memoryKv' =
                 IF ev.type = RATE_LIMITS_UPDATED /\ ev.has_rate_limits
                      /\ RequestsIdx(ev.rate_limits) # {}
                   THEN Spread(memoryKv, "requests_rate_limit",
                               FormattedLimit(FindRequests(ev.rate_limits)))
                   ELSE memoryKv
            /\ realtimeEvents' = Append(realtimeEvents, [event |-> ev, count |-> Undefined])

\* 'realtime.event' notifications, in any order.
RealtimeEvent ==
  /\ evSeq < MaxEvents
  /\ ~renderError
  /\ \E ev \in EventsAt(evSeq + 1) : OnRealtimeEvent(ev)
  /\ UNCHANGED <<toolVars, serviceVars, sessionVars>>

\* 'realtime.event' notifications of rate-limit updates that lack the expected shape.
MalformedRateLimits ==
  /\ evSeq < MaxEvents
  /\ ~renderError
  /\ \E ev \in MalformedAt(evSeq + 1) : OnRealtimeEvent(ev)
  /\ UNCHANGED <<toolVars, serviceVars, sessionVars>>

\* sendUserInput: a typed message is answered with text only.
SendUserInput ==
  /\ ~renderError
  /\ clientConnected
  /\ modalities' = {"text"}
  /\ UNCHANGED <<realtimeEvents, evSeq, runs, lastRequests, renderError, memoryKv>>
  /\ UNCHANGED <<toolVars, serviceVars, sessionVars>>

\* setRealtimeEvents([]), with the history kept beside the log.
ClearLog ==
  /\ realtimeEvents' = <<>>
  /\ evSeq' = 0
  /\ runs' = <<>>

\* The log reset of connectConversation, which keeps the MemoryMap.
LogConnectReset ==
  /\ ClearLog
  /\ UNCHANGED <<memoryKv, modalities, lastRequests, renderError>>
  /\ UNCHANGED <<toolVars, serviceVars, sessionVars>>

\* The log reset of disconnectConversation, which also empties the MemoryMap.
LogDisconnectReset ==
  /\ ClearLog
  /\ memoryKv' = <<>>
  /\ UNCHANGED <<modalities, lastRequests, renderError>>
  /\ UNCHANGED <<toolVars, serviceVars, sessionVars>>

InitLogVars ==
  /\ realtimeEvents = <<>>
  /\ memoryKv = <<>>
  /\ modalities = AllModalities
  /\ evSeq = 0
  /\ runs = <<>>
  /\ lastRequests = <<>>
  /\ renderError = FALSE

\* useState<Coordinates | null>({ lat: 37.775593, lng: -122.418137 }), in microdegrees.
DefaultCoords == [lat |-> 37775593, lng |-> -122418137]

\* The stores of a page that has loaded, nothing having been saved before.
Loaded ==
  [external |-> <<>>, local |-> <<>>, load |-> "done", from |-> "", previous |-> <<>>, accepted |-> {}]

\* The map and the tool dispatcher after construction, the relay being at url.
InitToolVars(url) ==
  /\ relayUrl = url
  /\ marker = <<>>
  /\ coords = DefaultCoords
  /\ toolRuns = EmptyBag
  /\ toolOutput = <<>>
  /\ persist = Loaded

(***************************************************************************)
(* Capture and playback pipelines, as the session uses them.               *)
(***************************************************************************)
Add(bag, e) == bag (+) SetToBag({e})

Del(bag, e) == bag (-) SetToBag({e})

Move(bag, e, f) == Add(Del(bag, e), f)

InFlight(bag) == BagCardinality(bag)

\* No item of the conversation has a decoded handle.
NoFiles == [i \in 1..MaxItems |-> 0]

\* wavRecorder.begin(): acquires the input device; idempotent if already begun.
RecBegin(r) ==
  IF r.begun THEN [r EXCEPT !.lastCall = "begin"]
  ELSE [begun |-> TRUE, status |-> "paused", lastCall |-> "begin"]

\* wavRecorder.record(): starts continuous capture.
RecRecord(r) == [r EXCEPT !.status = "recording", !.lastCall = "record"]

\* wavRecorder.pause(): stops delivery without releasing the device.
RecPause(r) ==
  [r EXCEPT !.status = IF r.begun THEN "paused" ELSE "ended", !.lastCall = "pause"]

\* wavRecorder.end(): releases the device.
RecEnd(r) == [begun |-> FALSE, status |-> "ended", lastCall |-> "end"]

\* How a record() call can settle: it needs the device, and what it does when
\* capture is already running is left open by the pipeline's contract.
RecordOutcomes(r) ==
  IF ~r.begun THEN {"reject"}
  ELSE IF r.status = "recording" THEN {"resolve", "reject"}
  ELSE {"resolve"}

\* How a pause() call can settle: what it does when capture is not running is left open.
PauseOutcomes(r) == IF r.status = "recording" THEN {"resolve"} ELSE {"resolve", "reject"}

\* How an end() call can settle: what it does when the device is not held is left open.
EndOutcomes(r) == IF r.begun THEN {"resolve"} ELSE {"resolve", "reject"}

(***************************************************************************)
(* Connection manager.                                                     *)
(***************************************************************************)
\* console.log('Disconnected, attempting to reconnect in 3 seconds...')
RECONNECTING == "Disconnected, attempting to reconnect"

\* console.error('Auto-reconnection failed:', error)
RECONNECT_FAILED == "Auto-reconnection failed"

\* The delay of the reconnect timer, in seconds.
RECONNECT_DELAY == 3

NewTimer(delay) == [remaining |-> delay, elapsed |-> 0, stale |-> FALSE]

\* A drop handler that arms the timer with no delay.
ScheduleReconnectNow(ts) == Append(ts, NewTimer(0))

\* setTimeout(..., 3000) of the 'disconnected' handler.
ScheduleReconnect(ts) == Append(ts, NewTimer(RECONNECT_DELAY))

\* connectConversation up to its first await: the state resets and the call of begin().
StartConnect(origin) ==
  /\ InFlight(connRuns) < MaxInFlight
  /\ isConnected' = TRUE
  /\ ClearLog
  /\ items' = convItems
  /\ connRuns' = Add(connRuns, [origin |-> origin, pc |-> "begin"])
  /\ discPhase' = "none"
  /\ UNCHANGED <<memoryKv, modalities, lastRequests, renderError, toolVars, serviceVars>>
  /\ UNCHANGED <<canPushToTalk, toggleValue>>
  /\ UNCHANGED <<clientVars, audioVars, captureVars, decodeRuns, files, deleteSent>>
  /\ UNCHANGED <<discRuns, console>>

\* The connect button, shown while isConnected is false.
ConnectClick ==
  /\ ~renderError
  /\ ~isConnected
  /\ StartConnect("click")
  /\ UNCHANGED timers

\* The reconnect timer's callback: try { await connectConversation() } catch { log }.
ReconnectTimerFires ==
  /\ timers # <<>>
  /\ Head(timers).remaining = 0
  /\ StartConnect("timer")
  /\ timers' = Tail(timers)

\* An awaited call of connectConversation rejected: the call throws.
ConnFail(run) == connRuns' = Move(connRuns, run, [run EXCEPT !.pc = "thrown"])

\* catch (error) { console.error('Auto-reconnection failed:', error) }
ReconnectCatch ==
  \E run \in BagToSet(connRuns) :
    /\ run.pc = "thrown"
    /\ run.origin = "timer"
    /\ connRuns' = Del(connRuns, run)
    /\ console' = RECONNECT_FAILED
    /\ UNCHANGED <<dataVars, uiVars, clientVars, audioVars, captureVars, viewVars>>
    /\ UNCHANGED <<timers, discRuns, discPhase>>

\* The click handler has no catch: the rejection of connectConversation is unhandled.
ConnectRejected ==
  \E run \in BagToSet(connRuns) :
    /\ run.pc = "thrown"
    /\ run.origin = "click"
    /\ connRuns' = Del(connRuns, run)
    /\ UNCHANGED <<dataVars, uiVars, clientVars, audioVars, captureVars, viewVars>>
    /\ UNCHANGED <<timers, discRuns, console, discPhase>>

\* await wavRecorder.begin()
ConnBegin ==
  \E run \in BagToSet(connRuns), ok \in BOOLEAN :
    /\ run.pc = "begin"
    /\ IF ok
         THEN /\ recorder' = RecBegin(recorder)
              /\ connRuns' = Move(connRuns, run, [run EXCEPT !.pc = "player"])
         ELSE /\ ConnFail(run)
              /\ UNCHANGED recorder
    /\ UNCHANGED <<dataVars, uiVars, clientVars, captureVars, viewVars>>
    /\ UNCHANGED <<player, frames, switchPhase>>
    /\ UNCHANGED <<timers, discRuns, console, discPhase>>

\* await wavStreamPlayer.connect()
ConnPlayer ==
  \E run \in BagToSet(connRuns), ok \in BOOLEAN :
    /\ run.pc = "player"
    /\ IF ok
         THEN /\ player' = [player EXCEPT !.connected = TRUE]
              /\ connRuns' = Move(connRuns, run, [run EXCEPT !.pc = "client"])
         ELSE /\ ConnFail(run)
              /\ UNCHANGED player
    /\ UNCHANGED <<dataVars, uiVars, clientVars, captureVars, viewVars>>
    /\ UNCHANGED <<recorder, frames, switchPhase>>
    /\ UNCHANGED <<timers, discRuns, console, discPhase>>

\* await client.connect(), then the greeting and the test of the turn detection type.
ConnClient ==
  \E run \in BagToSet(connRuns), ok \in BOOLEAN :
    /\ run.pc = "client"
    /\ IF ok
         THEN /\ clientConnected' = TRUE
              /\ connRuns' = IF turnDetection = "server_vad"
                               THEN Move(connRuns, run, [run EXCEPT !.pc = "record"])
                               ELSE Del(connRuns, run)
         ELSE /\ ConnFail(run)
              /\ UNCHANGED clientConnected
    /\ UNCHANGED <<dataVars, uiVars, audioVars, captureVars, viewVars>>
    /\ UNCHANGED <<turnDetection, convItems>>
    /\ UNCHANGED <<timers, discRuns, console, discPhase>>

\* await wavRecorder.record(...) of connectConversation (server_vad).
ConnRecord ==
  \E run \in BagToSet(connRuns), outcome \in RecordOutcomes(recorder) :
    /\ run.pc = "record"
    /\ IF outcome = "resolve"
         THEN /\ recorder' = RecRecord(recorder)
              /\ frames' = 0
              /\ connRuns' = Del(connRuns, run)
         ELSE /\ ConnFail(run)
              /\ UNCHANGED <<recorder, frames>>
    /\ UNCHANGED <<dataVars, uiVars, clientVars, captureVars, viewVars>>
    /\ UNCHANGED <<player, switchPhase>>
    /\ UNCHANGED <<timers, discRuns, console, discPhase>>

\* client.on('disconnected', ...): the transport dropped.
OnDisconnected ==
  /\ clientConnected
  /\ Len(timers) < MaxTimers
  /\ clientConnected' = FALSE
  /\ console' = RECONNECTING
  /\ isConnected' = FALSE
  /\ timers' = ScheduleReconnect(timers)
  /\ UNCHANGED <<dataVars, audioVars, captureVars, viewVars>>
  /\ UNCHANGED <<canPushToTalk, toggleValue, turnDetection, convItems>>
  /\ UNCHANGED <<connRuns, discRuns, discPhase>>

\* One second passes.
Tick ==
  /\ \E i \in 1..Len(timers) : timers[i].remaining > 0
  /\ timers' = [i \in 1..Len(timers) |->
                  IF timers[i].remaining > 0
                    THEN [timers[i] EXCEPT !.remaining = @ - 1, !.elapsed = @ + 1]
                    ELSE timers[i]]
  /\ UNCHANGED <<dataVars, uiVars, clientVars, audioVars, captureVars, viewVars>>
  /\ UNCHANGED <<connRuns, discRuns, console, discPhase>>

\* How client.disconnect() can end: whether a transport that fails to close makes
\* the call throw is left open by the protocol layer's contract.
CloseOutcomes(connected) == IF connected THEN {"closed", "throw"} ELSE {"closed"}

\* The disconnect button, shown while isConnected is true: disconnectConversation
\* up to its first await, or up to client.disconnect() when that call throws.
DisconnectClick ==
  \E outcome \in CloseOutcomes(clientConnected) :
    /\ ~renderError
    /\ isConnected
    /\ InFlight(discRuns) < MaxInFlight
    /\ isConnected' = FALSE
    /\ ClearLog
    /\ items' = <<>>
    /\ memoryKv' = <<>>
    /\ coords' = DefaultCoords
    /\ marker' = <<>>
    /\ IF outcome = "closed"
         THEN /\ clientConnected' = FALSE
              /\ convItems' = <<>>
              /\ files' = NoFiles
              /\ deleteSent' = {}
              /\ discRuns' = Add(discRuns, [pc |-> "end"])
              /\ discPhase' = "pending"
         ELSE /\ discPhase' = "rejected"
              /\ UNCHANGED <<clientConnected, convItems, files, deleteSent, discRuns>>
    /\ timers' = [i \in 1..Len(timers) |->
                    [timers[i] EXCEPT !.stale = @ \/ timers[i].remaining > 0]]
    /\ UNCHANGED <<modalities, lastRequests, renderError, relayUrl, persist, toolRuns, toolOutput, serviceVars>>
    /\ UNCHANGED <<canPushToTalk, toggleValue, turnDetection>>
    /\ UNCHANGED <<audioVars, captureVars, decodeRuns>>
    /\ UNCHANGED <<connRuns, console>>

\* await wavRecorder.end()
DiscEnd ==
  \E run \in BagToSet(discRuns), outcome \in EndOutcomes(recorder) :
    /\ run.pc = "end"
    /\ IF outcome = "resolve"
         THEN /\ recorder' = RecEnd(recorder)
              /\ switchPhase' = "none"
              /\ discRuns' = Move(discRuns, run, [run EXCEPT !.pc = "interrupt"])
         ELSE /\ discRuns' = Del(discRuns, run)
              /\ UNCHANGED <<recorder, switchPhase>>
    /\ UNCHANGED <<dataVars, uiVars, clientVars, captureVars, viewVars>>
    /\ UNCHANGED <<player, frames>>
    /\ UNCHANGED <<timers, connRuns, console, discPhase>>

\* await wavStreamPlayer.interrupt(), the last step of disconnectConversation.
DiscInterrupt ==
  \E run \in BagToSet(discRuns) :
    /\ run.pc = "interrupt"
    /\ player' = [player EXCEPT !.track = 0]
    /\ discRuns' = Del(discRuns, run)
    /\ discPhase' = IF discPhase = "pending" /\ InFlight(discRuns) = 1 THEN "done" ELSE discPhase
    /\ UNCHANGED <<dataVars, uiVars, clientVars, captureVars, viewVars>>
    /\ UNCHANGED <<recorder, frames, switchPhase>>
    /\ UNCHANGED <<timers, connRuns, console>>

(***************************************************************************)
(* Conversation view.                                                      *)
(***************************************************************************)
\* The ids of a list of items.
Ids(list) == {list[k] : k \in 1..Len(list)}

\* client.on('conversation.updated', ...) for item i, the protocol layer's
\* conversation being conv: delta says the update carries audio, done that the
\* item is completed with audio, which is then decoded before the view is set.
OnConversationUpdated(conv, i, delta, done) ==
  /\ player' = IF delta THEN [player EXCEPT !.track = i] ELSE player
  /\ IF done
       THEN /\ InFlight(decodeRuns) < MaxInFlight
            /\ files[i] < MaxDecodes
            /\ decodeRuns' = Add(decodeRuns, [item |-> i, items |-> conv])
            /\ UNCHANGED items
       ELSE /\ items' = conv
            /\ UNCHANGED decodeRuns
  /\ UNCHANGED <<files, deleteSent>>
  /\ UNCHANGED <<dataVars, uiVars, connVars, captureVars>>
  /\ UNCHANGED <<clientConnected, turnDetection>>
  /\ UNCHANGED <<recorder, frames, switchPhase>>

\* The protocol layer has created item i, the ids being given out in order, or
\* updated it, and notifies the page.
ConversationUpdated ==
  \E i \in 1..MaxItems, delta \in BOOLEAN, done \in BOOLEAN :
    /\ clientConnected
    /\ \/ i \in Ids(convItems)
       \/ i \notin deleteSent /\ \A j \in 1..(i - 1) : j \in Ids(convItems) \cup deleteSent
    /\ convItems' = IF i \in Ids(convItems) THEN convItems ELSE Append(convItems, i)
    /\ OnConversationUpdated(convItems', i, delta, done)

\* WavRecorder.decode resolved: item.formatted.file is set and setItems(items)
\* stores the list read when the handler began.
DecodeResolved ==
  \E run \in BagToSet(decodeRuns) :
    /\ files' = [files EXCEPT ![run.item] = @ + 1]
    /\ items' = run.items
    /\ decodeRuns' = Del(decodeRuns, run)
    /\ UNCHANGED deleteSent
    /\ UNCHANGED <<dataVars, uiVars, clientVars, audioVars, connVars, captureVars>>

\* A deletion that hands the protocol layer the id after the one clicked.
ForwardNext(sent, id) == sent \cup {id + 1}

\* client.deleteItem(id)
ForwardDelete(sent, id) == sent \cup {id}

\* The close button of a rendered item: deleteConversationItem(id).  Without a
\* transport the protocol layer refuses the request and nothing changes.
DeleteItem ==
  \E id \in Ids(items) :
    /\ ~renderError
    /\ clientConnected
    /\ deleteSent' = ForwardDelete(deleteSent, id)
    /\ UNCHANGED <<items, decodeRuns, files>>
    /\ UNCHANGED <<dataVars, uiVars, clientVars, audioVars, connVars, captureVars>>

\* The service has deleted item id on request: the protocol layer drops it from
\* its conversation and notifies the page with the item it dropped.
ItemDeleted ==
  \E id \in deleteSent \cap Ids(convItems), done \in BOOLEAN :
    /\ clientConnected
    /\ convItems' = SelectSeq(convItems, LAMBDA x : x # id)
    /\ OnConversationUpdated(convItems', id, FALSE, done)

\* A 'realtime.event' notification while the transport is up.
SessionEvent ==
  /\ clientConnected
  /\ evSeq < MaxSessionEvents
  /\ OnRealtimeEvent([type |-> AUDIO_DELTA, seq |-> evSeq + 1,
                      has_rate_limits |-> FALSE, is_list |-> FALSE, rate_limits |-> <<>>])
  /\ UNCHANGED <<toolVars, serviceVars, sessionVars>>

(***************************************************************************)
(* Capture handlers: push-to-talk and the turn detection toggle.           *)
(***************************************************************************)
\* No startRecording and no stopRecording call is in flight.
Quiescent == startRuns = EmptyBag /\ stopRuns = EmptyBag

\* The push-to-talk button is rendered.
PushToTalkShown == ~renderError /\ isConnected /\ canPushToTalk

\* onMouseDown: startRecording up to its first await.
StartRecording ==
  /\ PushToTalkShown
  /\ InFlight(startRuns) < MaxInFlight
  /\ startRuns' = Add(startRuns, [pc |-> "interrupt", track |-> 0])
  /\ gesture' = [phase |-> IF gesture.phase # "held" /\ Quiescent THEN "held" ELSE "unpaired",
                  created |-> 0]
  /\ UNCHANGED <<dataVars, clientVars, audioVars, connVars, viewVars>>
  /\ UNCHANGED <<isConnected, canPushToTalk, toggleValue, stopRuns, changeRuns>>

\* await wavStreamPlayer.interrupt(): playback stops and the track that was
\* playing, if any, is returned.
StartInterrupt ==
  \E run \in BagToSet(startRuns) :
    /\ run.pc = "interrupt"
    /\ player' = [player EXCEPT !.track = 0]
    /\ startRuns' = Move(startRuns, run,
                         IF player.track # 0
                           THEN [pc |-> "cancel", track |-> player.track]
                           ELSE [pc |-> "record", track |-> 0])
    /\ UNCHANGED <<dataVars, uiVars, clientVars, connVars, viewVars>>
    /\ UNCHANGED <<recorder, frames, switchPhase, stopRuns, changeRuns, gesture>>

\* await client.cancelResponse(trackId, offset)
StartCancel ==
  \E run \in BagToSet(startRuns) :
    /\ run.pc = "cancel"
    /\ startRuns' = Move(startRuns, run, [run EXCEPT !.pc = "record"])
    /\ UNCHANGED <<dataVars, uiVars, clientVars, audioVars, connVars, viewVars>>
    /\ UNCHANGED <<stopRuns, changeRuns, gesture>>

\* await wavRecorder.record(...) of startRecording.
StartRecord ==
  \E run \in BagToSet(startRuns), outcome \in RecordOutcomes(recorder) :
    /\ run.pc = "record"
    /\ startRuns' = Del(startRuns, run)
    /\ IF outcome = "resolve"
         THEN /\ recorder' = RecRecord(recorder)
              /\ frames' = 0
         ELSE UNCHANGED <<recorder, frames>>
    /\ UNCHANGED <<dataVars, uiVars, clientVars, connVars, viewVars>>
    /\ UNCHANGED <<player, switchPhase, stopRuns, changeRuns, gesture>>

\* onMouseUp: stopRecording up to its await.
StopRecording ==
  /\ PushToTalkShown
  /\ InFlight(stopRuns) < MaxInFlight
  /\ gesture.created < MaxCreated
  /\ stopRuns' = Add(stopRuns, [pc |-> "pause"])
  /\ gesture' = [gesture EXCEPT !.phase = IF @ = "held" THEN "released" ELSE "unpaired"]
  /\ UNCHANGED <<dataVars, clientVars, audioVars, connVars, viewVars>>
  /\ UNCHANGED <<isConnected, canPushToTalk, toggleValue, startRuns, changeRuns>>

\* await wavRecorder.pause(), then client.createResponse().
StopPause ==
  \E run \in BagToSet(stopRuns), outcome \in PauseOutcomes(recorder) :
    /\ run.pc = "pause"
    /\ stopRuns' = Del(stopRuns, run)
    /\ recorder' = IF outcome = "resolve" THEN RecPause(recorder) ELSE recorder
    /\ gesture' = IF outcome = "resolve" THEN [gesture EXCEPT !.created = @ + 1] ELSE gesture
    /\ UNCHANGED <<dataVars, uiVars, clientVars, connVars, viewVars>>
    /\ UNCHANGED <<player, frames, switchPhase, startRuns, changeRuns>>

\* A switch to manual that releases the device instead of pausing capture.
SwitchPauseByEnd(r) == RecEnd(r)

\* A switch to manual whose pause leaves capture recording.
SwitchPauseKeepsRecording(r) == [r EXCEPT !.lastCall = "pause"]

\* await wavRecorder.pause() of changeTurnEndType.
SwitchPause(r) == RecPause(r)

\* await wavRecorder.record(...) of changeTurnEndType.
SwitchRecord(r) == RecRecord(r)

\* The toggle's onChange: changeTurnEndType(value) up to its first await, or to
\* its end when it awaits nothing.
ChangeTurnEndType ==
  \E value \in {"none", "server_vad"} :
    /\ ~renderError
    /\ value # toggleValue
    /\ InFlight(changeRuns) < MaxInFlight
    /\ toggleValue' = value
    /\ IF value = "none" /\ recorder.status = "recording"
         THEN /\ changeRuns' = Add(changeRuns, [value |-> value, pc |-> "pause"])
              /\ UNCHANGED <<turnDetection, canPushToTalk>>
         ELSE /\ turnDetection' = value
              /\ IF value = "server_vad" /\ clientConnected
                   THEN /\ changeRuns' = Add(changeRuns, [value |-> value, pc |-> "record"])
                        /\ UNCHANGED canPushToTalk
                   ELSE /\ canPushToTalk' = (value = "none")
                        /\ UNCHANGED changeRuns
    /\ UNCHANGED <<dataVars, audioVars, connVars, viewVars>>
    /\ UNCHANGED <<isConnected, clientConnected, convItems, startRuns, stopRuns, gesture>>

\* The pause of a switch to manual settled; the session is then updated and,
\* the value being 'none', the push-to-talk button is offered.
ChangePause ==
  \E run \in BagToSet(changeRuns), outcome \in PauseOutcomes(recorder) :
    /\ run.pc = "pause"
    /\ changeRuns' = Del(changeRuns, run)
    /\ IF outcome = "resolve"
         THEN /\ recorder' = SwitchPause(recorder)
              /\ switchPhase' = IF recorder.status = "recording" THEN "paused" ELSE "none"
              /\ turnDetection' = run.value
              /\ canPushToTalk' = TRUE
         ELSE UNCHANGED <<recorder, switchPhase, turnDetection, canPushToTalk>>
    /\ UNCHANGED <<dataVars, connVars, viewVars>>
    /\ UNCHANGED <<isConnected, toggleValue, clientConnected, convItems>>
    /\ UNCHANGED <<player, frames, startRuns, stopRuns, gesture>>

\* The record of a switch to server_vad settled; the push-to-talk button is withdrawn.
ChangeRecord ==
  \E run \in BagToSet(changeRuns), outcome \in RecordOutcomes(recorder) :
    /\ run.pc = "record"
    /\ changeRuns' = Del(changeRuns, run)
    /\ IF outcome = "resolve"
         THEN /\ recorder' = SwitchRecord(recorder)
              /\ switchPhase' = IF switchPhase = "paused" THEN "resumed" ELSE "none"
              /\ frames' = 0
              /\ canPushToTalk' = FALSE
         ELSE UNCHANGED <<recorder, switchPhase, frames, canPushToTalk>>
    /\ UNCHANGED <<dataVars, connVars, viewVars>>
    /\ UNCHANGED <<isConnected, toggleValue, clientVars>>
    /\ UNCHANGED <<player, startRuns, stopRuns, gesture>>

\* The capture pipeline hands a frame to client.appendInputAudio.
FrameDelivered ==
  /\ recorder.status = "recording"
  /\ frames < MaxFrames
  /\ frames' = frames + 1
  /\ UNCHANGED <<dataVars, uiVars, clientVars, connVars, captureVars, viewVars>>
  /\ UNCHANGED <<recorder, player, switchPhase>>

(***************************************************************************)
(* Tool handlers and their dispatch.                                       *)
(***************************************************************************)
Str(s) == [t |-> "string", v |-> s]

ToolNames == {"calculator", "set_memory", "get_weather", "get_time"}

NoArgs == [key |-> "", value |-> "", location |-> "", lat |-> 0, lng |-> 0]

\* The arguments the service calls each tool with.
ArgsOf(name) ==
  CASE name = "calculator" -> {NoArgs}
    [] name = "set_memory" -> {[NoArgs EXCEPT !.key = "name", !.value = "Ann"]}
    [] name = "get_weather" -> {[NoArgs EXCEPT !.location = "Paris", !.lat = 48, !.lng = 2]}
    [] name = "get_time" -> {[NoArgs EXCEPT !.location = l] : l \in {"", "Tokyo"}}

\* How a fetch() settles: it rejects, or it is fulfilled with a response that is ok or not.
FetchOutcomes ==
  {[settled |-> "rejected", ok |-> FALSE],
   [settled |-> "fulfilled", ok |-> TRUE],
   [settled |-> "fulfilled", ok |-> FALSE]}

\* The bodies a forecast response carries: text that is not JSON, or one of WeatherJson.
WeatherBodies == {"not_json", "no_current", "no_temperature", "good"}

WeatherJson(body) ==
  CASE body = "good" ->
         [current |-> [temperature_2m |-> Num(20), wind_speed_10m |-> Num(5)],
          current_units |-> [temperature_2m |-> Str("C"), wind_speed_10m |-> Str("km/h")]]
    [] body = "no_temperature" ->
         [current |-> [time |-> Str("now")], current_units |-> [time |-> Str("iso8601")]]
    [] body = "no_current" -> [reason |-> Str("bad request")]

\* The bodies a time response carries: text that is not JSON, or one of TimeJson.
TimeBodies == {"not_json", "no_datetime", "good"}

TimeJson(body) ==
  CASE body = "good" -> [datetime |-> Str("2024-01-01T09:00")]
    [] body = "no_datetime" -> [timezone |-> Str("Asia/Tokyo")]

timezoneMapping ==
  ("New York" :> "America/New_York") @@ ("Mountain View" :> "America/Los_Angeles")
    @@ ("Sioux Falls" :> "US/Central") @@ ("London" :> "Europe/London")
    @@ ("Tokyo" :> "Asia/Tokyo") @@ ("UTC" :> "Etc/UTC")

\* timezoneMapping[location] || location
Timezone(location) ==
  IF location \in DOMAIN timezoneMapping THEN timezoneMapping[location] ELSE location

\* A handler that has just been called with args.
NewRun(name, args) ==
  [name |-> name, args |-> args, pc |-> "called", ret |-> "", body |-> "", failed |-> {},
   memory |-> <<>>, wrote |-> {}]

Returned(run, ret) == [run EXCEPT !.pc = "returned", !.ret = ret]

\* A throw that no try block of the handler encloses: the handler's promise rejects.
Rejected(run) == [run EXCEPT !.pc = "rejected"]

Failed(run, step) == [run EXCEPT !.failed = @ \cup {step}]

\* calculator: return { ok: 2 }
CalculatorStart(run) == Returned(run, "two")

\* set_memory up to its first await, the promise that the state updater resolves.
SetMemoryStart(run) == [run EXCEPT !.pc = "merge"]

\* get_weather up to its fetch, after setMarker and setCoords.
GetWeatherStart(run) == [run EXCEPT !.pc = "fetch"]

\* get_time up to its fetch: an empty location is thrown and caught.
GetTimeStart(run) ==
  IF Timezone(run.args.location) = ""
    THEN Returned(Failed(run, "location"), "time_failed")
    ELSE [run EXCEPT !.pc = "fetch"]

HandlerStart(name, args) ==
  CASE name = "calculator" -> CalculatorStart(NewRun(name, args))
    [] name = "set_memory" -> SetMemoryStart(NewRun(name, args))
    [] name = "get_weather" -> GetWeatherStart(NewRun(name, args))
    [] name = "get_time" -> GetTimeStart(NewRun(name, args))

\* What the handler returned.
HandlerResult(run) ==
  CASE run.ret = "two" -> [ok |-> Num(2)]
    [] run.ret = "saved" -> [ok |-> TRUE]
    [] run.ret = "save_failed" -> [error |-> Str("Failed to save memory")]
    [] run.ret = "json" -> WeatherJson(run.body)
    [] run.ret = "time" ->
         [location |-> Str(run.args.location),
          localTime |-> Get(TimeJson(run.body), "datetime")]
    [] run.ret = "time_failed" -> [error |-> Str("Could not retrieve time for the location")]

\* The dispatch boundary: a rejection becomes { error: message }.
DispatchResult(run) ==
  IF run.pc = "rejected" THEN [error |-> Str("message")] ELSE HandlerResult(run)

\* The service calls a tool: the dispatcher runs the handler up to its first await.
ToolInvoke ==
  \E name \in ToolNames : \E args \in ArgsOf(name) :
    /\ clientConnected
    /\ InFlight(toolRuns) < MaxInFlight
    /\ toolRuns' = Add(toolRuns, HandlerStart(name, args))
    /\ IF name = "get_weather"
         THEN /\ marker' = <<[lat |-> args.lat, lng |-> args.lng, location |-> args.location]>>
              /\ coords' = [lat |-> args.lat, lng |-> args.lng, location |-> args.location]
         ELSE UNCHANGED <<marker, coords>>
    /\ UNCHANGED <<logVars, serviceVars, sessionVars, relayUrl, persist, toolOutput>>

\* set_memory: the state updater merges the key into the MemoryMap.
SetMemoryMerge ==
  \E run \in BagToSet(toolRuns) :
    /\ run.name = "set_memory"
    /\ run.pc = "merge"
    /\ memoryKv' = Spread(memoryKv, run.args.key, Str(run.args.value))
    /\ toolRuns' = Move(toolRuns, run, [run EXCEPT !.pc = IF relayUrl # "" THEN "relay" ELSE "server",
                                                    !.memory = memoryKv'])
    /\ UNCHANGED <<aggVars, serviceVars, sessionVars, relayUrl, persist, marker, coords, toolOutput>>

\* if (response.ok) saved = true, a rejected fetch being caught and logged.
Saved(outcome) == outcome.settled = "fulfilled" /\ outcome.ok

\* JSON.parse(JSON.stringify(map)): a property whose value is undefined is left out.
IsUndefined(v) == "t" \in DOMAIN v /\ v.t = "undefined"

Json(map) == [k \in {key \in DOMAIN map : ~IsUndefined(map[key])} |-> map[k]]

\* The endpoint that answered ok holds the posted map.
Posted(run, store) == [run EXCEPT !.wrote = @ \cup {store}]

\* localStorage.setItem('app_memory', ...), by its outcome, and the return that follows.
StoreLocally(run, stored) ==
  IF stored THEN Returned([run EXCEPT !.wrote = @ \cup {"local"}], "saved")
  ELSE Returned(Failed(run, "local_storage"), "save_failed")

\* What the stores hold once a POST of the run has settled and the local copy was tried.
Persisted(run, saved, local) ==
  [persist EXCEPT !.external = IF saved THEN Json(run.memory) ELSE @,
                  !.local = IF local THEN Json(run.memory) ELSE @,
                  !.accepted = IF saved THEN @ \cup {run.args.key} ELSE @]

\* set_memory: the POST to the relay server settled.
SetMemoryRelay ==
  \E run \in BagToSet(toolRuns), outcome \in FetchOutcomes, stored \in BOOLEAN :
    /\ run.name = "set_memory"
    /\ run.pc = "relay"
    /\ toolRuns' = Move(toolRuns, run,
                        IF Saved(outcome) THEN StoreLocally(Posted(run, "relay"), stored)
                        ELSE [Failed(run, "relay") EXCEPT !.pc = "server"])
    /\ persist' = Persisted(run, Saved(outcome), Saved(outcome) /\ stored)
    /\ UNCHANGED <<logVars, serviceVars, sessionVars, relayUrl, marker, coords, toolOutput>>

\* set_memory: the POST to the memory server settled.
SetMemoryServer ==
  \E run \in BagToSet(toolRuns), outcome \in FetchOutcomes, stored \in BOOLEAN :
    /\ run.name = "set_memory"
    /\ run.pc = "server"
    /\ toolRuns' = Move(toolRuns, run,
                        StoreLocally(IF Saved(outcome) THEN Posted(run, "server")
                                     ELSE Failed(run, "server"), stored))
    /\ persist' = Persisted(run, Saved(outcome), stored)
    /\ UNCHANGED <<logVars, serviceVars, sessionVars, relayUrl, marker, coords, toolOutput>>

\* The keys the assistant stores and the maps that a session can have left behind.
MemoryKeys == {"name", "city"}

SavedMaps == {[k \in keys |-> Str("Ann")] : keys \in SUBSET MemoryKeys}

\* The service calls set_memory while fewer than limit handlers are running.
SetMemoryCall(limit) ==
  \E key \in MemoryKeys :
    /\ clientConnected
    /\ InFlight(toolRuns) < limit
    /\ toolRuns' = Add(toolRuns, HandlerStart("set_memory", [NoArgs EXCEPT !.key = key, !.value = "Ann"]))
    /\ UNCHANGED <<logVars, serviceVars, sessionVars, relayUrl, persist, marker, coords, toolOutput>>

\* The effects of the first render, in the order they are declared: loadMemory()
\* runs up to its first fetch, then the save effect writes the initial MemoryMap.
Mount ==
  /\ persist.load = "mount"
  /\ persist' = [persist EXCEPT !.load = IF relayUrl # "" THEN "relay" ELSE "server",
                                !.local = Json(memoryKv)]
  /\ UNCHANGED <<logVars, serviceVars, sessionVars, relayUrl, marker, coords, toolRuns, toolOutput>>

\* loadMemory: the GET to the relay server settled.
LoadRelay ==
  \E outcome \in FetchOutcomes :
    /\ persist.load = "relay"
    /\ IF Saved(outcome)
         THEN /\ memoryKv' = persist.external
              /\ persist' = [persist EXCEPT !.load = "done", !.from = "relay"]
         ELSE /\ persist' = [persist EXCEPT !.load = "server"]
              /\ UNCHANGED memoryKv
    /\ UNCHANGED <<aggVars, serviceVars, sessionVars, relayUrl, marker, coords, toolRuns, toolOutput>>

\* loadMemory: the GET to the memory server answered ok.
LoadServer ==
  /\ persist.load = "server"
  /\ memoryKv' = persist.external
  /\ persist' = [persist EXCEPT !.load = "done", !.from = "server"]
  /\ UNCHANGED <<aggVars, serviceVars, sessionVars, relayUrl, marker, coords, toolRuns, toolOutput>>

\* loadMemory: the GET to the memory server failed too and localStorage is read;
\* the item is there, the save effect of the first render having written it.
LoadFallback ==
  /\ persist.load = "server"
  /\ memoryKv' = persist.local
  /\ persist' = [persist EXCEPT !.load = "done", !.from = "localStorage"]
  /\ UNCHANGED <<aggVars, serviceVars, sessionVars, relayUrl, marker, coords, toolRuns, toolOutput>>

\* useEffect on [memoryKv]: localStorage.setItem('app_memory', JSON.stringify(memoryKv))
\* after a render that committed a new MemoryMap.
SaveEffect ==
  /\ persist.load = "done"
  /\ persist.local # Json(memoryKv)
  /\ persist' = [persist EXCEPT !.local = Json(memoryKv)]
  /\ UNCHANGED <<logVars, serviceVars, sessionVars, relayUrl, marker, coords, toolRuns, toolOutput>>

\* get_weather: the fetch settled; the status of the response is not looked at,
\* what the response is worth shows in its body.
GetWeatherFetch ==
  \E run \in BagToSet(toolRuns), outcome \in FetchOutcomes :
    /\ run.name = "get_weather"
    /\ run.pc = "fetch"
    /\ toolRuns' = Move(toolRuns, run,
                        IF outcome.settled = "rejected" THEN Rejected(Failed(run, "fetch"))
                        ELSE [run EXCEPT !.pc = "json"])
    /\ UNCHANGED <<logVars, serviceVars, sessionVars, relayUrl, persist, marker, coords, toolOutput>>

\* { value: json.current.temperature_2m, units: json.current_units.temperature_2m }
Reading(json, field) ==
  [value |-> Get(json.current, field), units |-> Get(json.current_units, field)]

\* get_weather: result.json() settled; the readings are taken and the marker is set.
GetWeatherJson ==
  \E run \in BagToSet(toolRuns), body \in WeatherBodies :
    /\ run.name = "get_weather"
    /\ run.pc = "json"
    /\ IF body = "not_json"
         THEN /\ toolRuns' = Move(toolRuns, run, Rejected(Failed(run, "parse")))
              /\ UNCHANGED marker
         ELSE LET json == WeatherJson(body) IN
              IF "current" \notin DOMAIN json \/ "current_units" \notin DOMAIN json
                THEN /\ toolRuns' = Move(toolRuns, run, Rejected(Failed(run, "no_current")))
                     /\ UNCHANGED marker
                ELSE /\ marker' = <<[lat |-> run.args.lat, lng |-> run.args.lng,
                                     location |-> run.args.location,
                                     temperature |-> Reading(json, "temperature_2m"),
                                     wind_speed |-> Reading(json, "wind_speed_10m")]>>
                     /\ toolRuns' =
                          Move(toolRuns, run,
                               [Returned(IF Reading(json, "temperature_2m").value.t = "undefined"
                                           THEN Failed(run, "no_temperature") ELSE run,
                                         "json") EXCEPT !.body = body])
    /\ UNCHANGED <<logVars, serviceVars, sessionVars, relayUrl, persist, coords, toolOutput>>

\* The failure a response that is not ok stands for.
StatusFailure(run, outcome) == IF outcome.ok THEN run ELSE Failed(run, "status")

\* A handler that goes on to read the body whatever the status.
IgnoresStatus(outcome) == FALSE

\* if (!response.ok) throw new Error(...)
ThrowsOnStatus(outcome) == ~outcome.ok

\* get_time: the fetch settled.
GetTimeFetch ==
  \E run \in BagToSet(toolRuns), outcome \in FetchOutcomes :
    /\ run.name = "get_time"
    /\ run.pc = "fetch"
    /\ toolRuns' = Move(toolRuns, run,
                        IF outcome.settled = "rejected"
                          THEN Returned(Failed(run, "fetch"), "time_failed")
                        ELSE IF ThrowsOnStatus(outcome)
                          THEN Returned(StatusFailure(run, outcome), "time_failed")
                        ELSE [StatusFailure(run, outcome) EXCEPT !.pc = "json"])
    /\ UNCHANGED <<logVars, serviceVars, sessionVars, relayUrl, persist, marker, coords, toolOutput>>

\* get_time: response.json() settled; json.datetime is stored in the MemoryMap.
GetTimeJson ==
  \E run \in BagToSet(toolRuns), body \in TimeBodies :
    /\ run.name = "get_time"
    /\ run.pc = "json"
    /\ IF body = "not_json"
         THEN /\ toolRuns' = Move(toolRuns, run, Returned(Failed(run, "parse"), "time_failed"))
              /\ UNCHANGED memoryKv
         ELSE LET localTime == Get(TimeJson(body), "datetime") IN
              /\ memoryKv' = Spread(memoryKv, run.args.location, localTime)
              /\ toolRuns' =
                   Move(toolRuns, run,
                        [Returned(IF localTime.t = "undefined"
                                    THEN Failed(run, "no_datetime") ELSE run,
                                  "time") EXCEPT !.body = body])
    /\ UNCHANGED <<aggVars, serviceVars, sessionVars, relayUrl, persist, marker, coords, toolOutput>>

\* The handler's promise settled: the dispatcher sends the function_call_output.
ToolResolved ==
  \E run \in BagToSet(toolRuns) :
    /\ run.pc \in {"returned", "rejected"}
    /\ toolOutput' = <<[name |-> run.name, output |-> DispatchResult(run), failed |-> run.failed,
                         wrote |-> run.wrote]>>
    /\ toolRuns' = Del(toolRuns, run)
    /\ UNCHANGED <<logVars, serviceVars, sessionVars, relayUrl, persist, marker, coords>>

(***************************************************************************)
(* The memory persistence service: POST and GET /memory of the memory      *)
(* server, over memory.json, the 'memories' collection and the memory_logs *)
(* table, and POST and GET /api/memory of the relay server, over the same  *)
(* memory.json.  The client issues one request at a time.                  *)
(***************************************************************************)

\* The field names of the request bodies, in the order JSON.stringify meets them.
BodyKeys == <<"name", "city">>

EmptyObject == [k \in {} |-> ""]

\* The JSON objects express.json() hands over as req.body.
Bodies == {EmptyObject, [name |-> "a"], [name |-> "b"], [name |-> "a", city |-> "c"]}

\* The members of a JSON text: one <<name, value>> pair for each own field of o.
RECURSIVE Members(_, _)
Members(o, keys) ==
  IF keys = <<>> THEN <<>>
  ELSE (IF Head(keys) \in DOMAIN o THEN << <<Head(keys), o[Head(keys)]>> >> ELSE <<>>)
         \o Members(o, Tail(keys))

\* JSON.stringify({ memory }, null, 2): the text of an object holding o as its 'memory'.
JsonStringify(o) == <<"memory", Members(o, BodyKeys)>>

\* JSON.parse of such a text.
JsonParse(text) ==
  [memory |-> [k \in {text[2][i][1] : i \in 1..Len(text[2])} |->
                 text[2][CHOOSE i \in 1..Len(text[2]) : text[2][i][1] = k][2]]]

\* fs.writeFile either replaces the file or is refused (EACCES, ENOENT).
WriteOutcomes == {"written", "refused"}

\* A MongoDB operation either completes or rejects.
MongoOutcomes == {"done", "throw"}

\* pool.execute either inserts the row or rejects.
MySqlOutcomes == {"done", "throw"}

WriteFile(o) == [exists |-> TRUE, data |-> JsonStringify(o)]

\* res.json(body) or res.status(500).json(body), answering the request `method path`.
Respond(method, path, reqBody, status, body) ==
  http' = Append(http, [method |-> method, path |-> path, request |-> reqBody,
                        status |-> status, body |-> body])

Idle == postRuns = <<>> /\ Len(http) < MaxRequests

\* app.post('/memory'), up to the file write.
PostMemory ==
  \E body \in Bodies, outcome \in WriteOutcomes :
    /\ Idle
    /\ IF outcome = "written"
         THEN /\ memoryFile' = WriteFile(body)
              /\ postRuns' = <<[body |-> body, pc |-> "create"]>>
              /\ UNCHANGED http
         ELSE /\ Respond("POST", "/memory", body, 500, [success |-> FALSE])
              /\ UNCHANGED <<memoryFile, postRuns>>
    /\ UNCHANGED <<memories, memory_logs>>
    /\ UNCHANGED <<logVars, toolVars, sessionVars>>

\* app.post('/memory'): Memory.create({ memory: req.body }).
PostMemoryCreate ==
  \E outcome \in MongoOutcomes :
    /\ postRuns # <<>>
    /\ postRuns[1].pc = "create"
    /\ IF outcome = "done"
         THEN /\ memories' = Append(memories, [memory |-> postRuns[1].body])
              /\ postRuns' = <<[postRuns[1] EXCEPT !.pc = "log"]>>
              /\ UNCHANGED http
         ELSE /\ Respond("POST", "/memory", postRuns[1].body, 500, [success |-> FALSE])
              /\ postRuns' = <<>>
              /\ UNCHANGED memories
    /\ UNCHANGED <<memoryFile, memory_logs>>
    /\ UNCHANGED <<logVars, toolVars, sessionVars>>

\* app.post('/memory'): the MySQL log, whose failure is swallowed, and the answer.
PostMemoryLog ==
  \E outcome \in MySqlOutcomes :
    /\ postRuns # <<>>
    /\ postRuns[1].pc = "log"
    /\ memory_logs' = IF outcome = "done"
                        THEN Append(memory_logs, Members(postRuns[1].body, BodyKeys))
                        ELSE memory_logs
    /\ Respond("POST", "/memory", postRuns[1].body, 200, [success |-> TRUE])
    /\ postRuns' = <<>>
    /\ UNCHANGED <<memoryFile, memories>>
    /\ UNCHANGED <<logVars, toolVars, sessionVars>>

\* fs.readFile(MEMORY_FILE_PATH, 'utf8').catch(() => JSON.stringify({ memory: {} }))
FileData == IF memoryFile.exists THEN memoryFile.data ELSE JsonStringify(EmptyObject)

\* Memory.findOne().sort({ createdAt: -1 }).catch(() => null): <<>> stands for null.
MongoData(outcome) ==
  IF outcome = "done" /\ memories # <<>> THEN <<memories[Len(memories)]>> ELSE <<>>

\* What GET /memory answers: the newest document if there is one, else the file.
PreferMongo(mongoData) ==
  IF mongoData # <<>> THEN [memory |-> mongoData[1].memory] ELSE JsonParse(FileData)

\* app.get('/memory')
GetMemory ==
  \E outcome \in MongoOutcomes :
    /\ Idle
    /\ Respond("GET", "/memory", EmptyObject, 200, PreferMongo(MongoData(outcome)))
    /\ UNCHANGED <<memoryFile, memories, memory_logs, postRuns>>
    /\ UNCHANGED <<logVars, toolVars, sessionVars>>

\* saveMemory(memory), behind POST /api/memory of the relay server.
saveMemory ==
  \E memory \in Bodies, outcome \in WriteOutcomes :
    /\ Idle
    /\ IF outcome = "written"
         THEN /\ memoryFile' = WriteFile(memory)
              /\ Respond("POST", "/api/memory", memory, 200, [success |-> TRUE])
         ELSE /\ Respond("POST", "/api/memory", memory, 200, [success |-> FALSE])
              /\ UNCHANGED memoryFile
    /\ UNCHANGED <<memories, memory_logs, postRuns>>
    /\ UNCHANGED <<logVars, toolVars, sessionVars>>

\* getMemory(), behind GET /api/memory of the relay server.
getMemory ==
  /\ Idle
  /\ Respond("GET", "/api/memory", EmptyObject, 200,
             IF memoryFile.exists THEN JsonParse(memoryFile.data) ELSE [memory |-> EmptyObject])
  /\ UNCHANGED <<memoryFile, memories, memory_logs, postRuns>>
  /\ UNCHANGED <<logVars, toolVars, sessionVars>>

\* The service after start-up: no memory.json yet, empty collection and table.
InitServiceVars ==
  /\ memoryFile = [exists |-> FALSE, data |-> <<>>]
  /\ memories = <<>>
  /\ memory_logs = <<>>
  /\ postRuns = <<>>
  /\ http = <<>>

InitDataVars == InitLogVars /\ InitToolVars("") /\ InitServiceVars

(***************************************************************************)
(* Initial states and specifications.                                      *)
(***************************************************************************)
\* The state after construction, with the toggle at value: flipping the toggle
\* before connecting only sets the session's turn detection and the button.
InitSessionVars(value) ==
  /\ isConnected = FALSE
  /\ canPushToTalk = (value = "none")
  /\ toggleValue = value
  /\ items = <<>>
  /\ clientConnected = FALSE
  /\ turnDetection = value
  /\ convItems = <<>>
  /\ recorder = [begun |-> FALSE, status |-> "ended", lastCall |-> "none"]
  /\ player = [connected |-> FALSE, track |-> 0]
  /\ frames = 0
  /\ timers = <<>>
  /\ connRuns = EmptyBag
  /\ discRuns = EmptyBag
  /\ startRuns = EmptyBag
  /\ stopRuns = EmptyBag
  /\ changeRuns = EmptyBag
  /\ gesture = [phase |-> "idle", created |-> 0]
  /\ decodeRuns = EmptyBag
  /\ files = NoFiles
  /\ deleteSent = {}
  /\ console = ""
  /\ discPhase = "none"
  /\ switchPhase = "none"

\* The state after connectConversation has run to its end with the toggle at value.
ConnectedSessionVars(value) ==
  /\ isConnected = TRUE
  /\ canPushToTalk = (value = "none")
  /\ toggleValue = value
  /\ items = <<>>
  /\ clientConnected = TRUE
  /\ turnDetection = value
  /\ convItems = <<>>
  /\ recorder = IF value = "server_vad"
                  THEN [begun |-> TRUE, status |-> "recording", lastCall |-> "record"]
                  ELSE [begun |-> TRUE, status |-> "paused", lastCall |-> "begin"]
  /\ player = [connected |-> TRUE, track |-> 0]
  /\ frames = 0
  /\ timers = <<>>
  /\ connRuns = EmptyBag
  /\ discRuns = EmptyBag
  /\ startRuns = EmptyBag
  /\ stopRuns = EmptyBag
  /\ changeRuns = EmptyBag
  /\ gesture = [phase |-> "idle", created |-> 0]
  /\ decodeRuns = EmptyBag
  /\ files = NoFiles
  /\ deleteSent = {}
  /\ console = ""
  /\ discPhase = "none"
  /\ switchPhase = "none"

Init == InitDataVars /\ InitSessionVars("none")

\* The event aggregator alone.
NextLog == RealtimeEvent \/ LogConnectReset \/ LogDisconnectReset

SpecLog == Init /\ [][NextLog]_vars

\* Connecting, dropping, reconnecting and disconnecting, in either mode.
InitReconnect == InitDataVars /\ \E value \in {"none", "server_vad"} : InitSessionVars(value)

NextReconnect ==
  \/ ConnectClick
  \/ ReconnectTimerFires
  \/ ConnBegin
  \/ ConnPlayer
  \/ ConnClient
  \/ ConnRecord
  \/ ReconnectCatch
  \/ ConnectRejected
  \/ OnDisconnected
  \/ Tick
  \/ DisconnectClick
  \/ DiscEnd
  \/ DiscInterrupt

SpecReconnect == InitReconnect /\ [][NextReconnect]_vars

\* The connection manager with the conversation view and the event log.
NextConn ==
  \/ NextReconnect
  \/ ConversationUpdated
  \/ DecodeResolved
  \/ SessionEvent

\* It starts from a fresh page or from a session that connectConversation has set up.
InitConn ==
  /\ InitDataVars
  /\ \E value \in {"none", "server_vad"} : InitSessionVars(value) \/ ConnectedSessionVars(value)

SpecConn == InitConn /\ [][NextConn]_vars

\* Connect clicks, transport drops and reconnect timers only: no manual disconnect.
NextDrops ==
  \/ ConnectClick
  \/ ReconnectTimerFires
  \/ ConnBegin
  \/ ConnPlayer
  \/ ConnClient
  \/ ConnRecord
  \/ ReconnectCatch
  \/ ConnectRejected
  \/ OnDisconnected
  \/ Tick

SpecDrops == InitReconnect /\ [][NextDrops]_vars

\* The capture handlers of a connected session in which nothing is played, until
\* it drops or is disconnected.
InitCapture == InitDataVars /\ \E value \in {"none", "server_vad"} : ConnectedSessionVars(value)

NextCapture ==
  \/ StartRecording
  \/ StartInterrupt
  \/ StartRecord
  \/ StopRecording
  \/ StopPause
  \/ ChangeTurnEndType
  \/ ChangePause
  \/ ChangeRecord
  \/ FrameDelivered
  \/ OnDisconnected
  \/ DisconnectClick
  \/ DiscEnd
  \/ DiscInterrupt

SpecCapture == InitCapture /\ [][NextCapture]_vars

\* Push-to-talk alone, in a connected session in manual mode.
InitPushToTalk == InitDataVars /\ ConnectedSessionVars("none")

NextPushToTalk ==
  \/ StartRecording
  \/ StartInterrupt
  \/ StartCancel
  \/ StartRecord
  \/ StopRecording
  \/ StopPause
  \/ FrameDelivered
  \/ ConversationUpdated
  \/ DecodeResolved

SpecPushToTalk == InitPushToTalk /\ [][NextPushToTalk]_vars

\* The tool dispatcher of a connected session, with or without a relay server.
InitTool ==
  /\ InitLogVars
  /\ \E url \in {"", "http://localhost:8081"} : InitToolVars(url)
  /\ InitServiceVars
  /\ ConnectedSessionVars("none")

NextTool ==
  \/ ToolInvoke
  \/ SetMemoryMerge
  \/ SetMemoryRelay
  \/ SetMemoryServer
  \/ GetWeatherFetch
  \/ GetWeatherJson
  \/ GetTimeFetch
  \/ GetTimeJson
  \/ ToolResolved

SpecTool == InitTool /\ [][NextTool]_vars

\* The event pipeline of a connected session, with typed messages between the
\* events and with rate-limit updates that lack the expected shape.
InitEvents == InitDataVars /\ ConnectedSessionVars("none")

NextEvents == RealtimeEvent \/ MalformedRateLimits \/ SendUserInput

SpecEvents == InitEvents /\ [][NextEvents]_vars

\* The conversation view of a connected session, with deletions, up to a
\* disconnect and the next connect click.
NextView ==
  \/ ConversationUpdated
  \/ DecodeResolved
  \/ DeleteItem
  \/ ItemDeleted
  \/ DisconnectClick
  \/ DiscEnd
  \/ DiscInterrupt
  \/ ConnectClick

SpecView == InitPushToTalk /\ [][NextView]_vars

\* The memory service, answering one request after the other.
NextMemory ==
  \/ PostMemory
  \/ PostMemoryCreate
  \/ PostMemoryLog
  \/ GetMemory
  \/ saveMemory
  \/ getMemory

SpecMemory == Init /\ [][NextMemory]_vars

\* The page is opened: a previous session left a map in localStorage and one in
\* the external store, and the endpoints may or may not answer.
InitStartup ==
  /\ InitLogVars
  /\ \E url \in {"", "http://localhost:8081"}, external \in SavedMaps, local \in SavedMaps :
       /\ relayUrl = url
       /\ persist = [Loaded EXCEPT !.load = "mount", !.external = external,
                                   !.local = local, !.previous = local]
  /\ marker = <<>>
  /\ coords = DefaultCoords
  /\ toolRuns = EmptyBag
  /\ toolOutput = <<>>
  /\ InitServiceVars
  /\ InitSessionVars("none")

NextStartup ==
  \/ Mount
  \/ LoadRelay
  \/ LoadServer
  \/ LoadFallback
  \/ SaveEffect

SpecStartup == InitStartup /\ [][NextStartup]_vars

\* set_memory calls made one at a time, across manual disconnects and new connects.
NextStore ==
  \/ SetMemoryCall(MaxInFlight)
  \/ SetMemoryMerge
  \/ SetMemoryRelay
  \/ SetMemoryServer
  \/ ToolResolved
  \/ SaveEffect
  \/ DisconnectClick
  \/ DiscEnd
  \/ DiscInterrupt
  \/ ConnectClick
  \/ ConnBegin
  \/ ConnPlayer
  \/ ConnClient
  \/ ConnectRejected

SpecStore == InitTool /\ [][NextStore]_vars

\* set_memory calls that overlap, in a session that stays connected.
NextConcurrent ==
  \/ SetMemoryCall(MaxCalls)
  \/ SetMemoryMerge
  \/ SetMemoryRelay
  \/ SetMemoryServer
  \/ ToolResolved
  \/ SaveEffect

SpecConcurrent == InitTool /\ [][NextConcurrent]_vars

\* The whole session.
Next ==
  \/ NextConn \/ NextCapture \/ NextTool \/ NextEvents \/ NextView \/ NextMemory
  \/ NextStartup \/ NextStore \/ NextConcurrent

Spec == Init /\ [][Next]_vars

(***************************************************************************)
(* Claims about the event aggregator (checked under SpecLog).              *)
(***************************************************************************)
\* The count an entry shows: an entry without a count stands for one event.
CountOf(entry) == IF entry.count.t = "number" THEN entry.count.v ELSE 1

\* C1: each maximal run of same-type events since the last reset is one log
\* entry, and the entry's count equals the length of the run.
C1_CountEqualsRunLength ==
  /\ Len(realtimeEvents) = Len(runs)
  /\ \A i \in 1..Len(realtimeEvents) :
       /\ realtimeEvents[i].event.type = runs[i].type
       /\ CountOf(realtimeEvents[i]) = runs[i].n

C7_StoredProjection ==
  (lastRequests # <<>> /\ "requests_rate_limit" \in DOMAIN memoryKv) =>
    LET r == lastRequests[1]
        stored == memoryKv["requests_rate_limit"]
    IN /\ Get(stored, "reset_minutes") = CeilDiv60(r["reset_seconds"])
       /\ \A k \in DOMAIN r \ {"reset_seconds"} : k \in DOMAIN stored /\ stored[k] = r[k]
       /\ "reset_seconds" \notin DOMAIN stored

(***************************************************************************)
(* Claims about the connection manager.                                    *)
(***************************************************************************)
\* C3 (under SpecReconnect): every 'disconnected' notification schedules exactly
\* one reconnect timer, due RECONNECT_DELAY seconds later, and nothing else
\* schedules one; a timer is removed only by firing, which happens no earlier
\* than RECONNECT_DELAY seconds after the drop and starts connectConversation;
\* a failed attempt is logged and leaves the timers as they are.
C3_OneReconnectPerDrop ==
  /\ [][OnDisconnected =>
          /\ Len(timers') = Len(timers) + 1
          /\ SubSeq(timers', 1, Len(timers)) = timers
          /\ timers'[Len(timers')].remaining = RECONNECT_DELAY
          /\ timers'[Len(timers')].elapsed = 0]_vars
  /\ [][Len(timers') > Len(timers) => OnDisconnected]_vars
  /\ [][Len(timers') < Len(timers) => ReconnectTimerFires]_vars
  /\ [][ReconnectTimerFires =>
          /\ Head(timers).elapsed >= RECONNECT_DELAY
          /\ timers' = Tail(timers)
          /\ BagIn([origin |-> "timer", pc |-> "begin"], connRuns')]_vars
  /\ [][ReconnectCatch => console' = RECONNECT_FAILED /\ timers' = timers]_vars

\* A reconnect attempt has failed and was logged, and no timer is pending.
C3_Witness ==
  /\ console = RECONNECT_FAILED
  /\ timers = <<>>
  /\ connRuns = EmptyBag

\* C4 (under SpecReconnect): a reconnect timer whose delay had not elapsed when a
\* manual disconnect was issued never runs connectConversation.
C4_DisconnectCancelsReconnect == [][ReconnectTimerFires => ~Head(timers).stale]_vars

\* C9 (under SpecConn): once a manual disconnect has completed, and until the
\* next connect, the conversation view and the event log are empty.
C9_EmptyAfterDisconnect == discPhase = "done" => (items = <<>> /\ realtimeEvents = <<>>)

\* C10 (under SpecDrops): connectConversation starts only in Disconnected:
\* the session is not connected and no other connect is in progress.
C10_ConnectOnlyWhenDisconnected ==
  [][(ConnectClick \/ ReconnectTimerFires) =>
       (~isConnected /\ ~clientConnected /\ connRuns = EmptyBag)]_vars

(***************************************************************************)
(* Claims about the capture handlers.                                      *)
(***************************************************************************)
\* A startRecording call is still awaiting interrupt() or cancelResponse().
StartAwaitingInterrupt == \E run \in BagToSet(startRuns) : run.pc \in {"interrupt", "cancel"}

\* C6 (under SpecPushToTalk): no frame is handed to appendInputAudio while a
\* startRecording call is still awaiting its interrupt() or cancelResponse().
C6_NoFrameBeforeInterruptResolved == [][FrameDelivered => ~StartAwaitingInterrupt]_vars

\* C8 (under SpecCapture): a switch to manual while capture is recording pauses
\* it (the last call is pause(), the device stays acquired), the device stays
\* acquired until a disconnect ends capture, and a switch back to server_vad on
\* a paused capture makes it record again, the last call being record() and not
\* begin().
C8_SwitchPausesAndResumes ==
  /\ [](switchPhase # "none" => recorder.begun)
  /\ [][(ChangePause /\ recorder.status = "recording") =>
          recorder' = [begun |-> TRUE, status |-> "paused", lastCall |-> "pause"]]_vars
  /\ [][(ChangeRecord /\ recorder.begun /\ recorder.status = "paused") =>
          recorder' = [begun |-> TRUE, status |-> "recording", lastCall |-> "record"]]_vars

\* Capture was paused by a switch to manual and records again after the switch back.
C8_Witness ==
  /\ switchPhase = "resumed"
  /\ recorder = [begun |-> TRUE, status |-> "recording", lastCall |-> "record"]
  /\ toggleValue = "server_vad"
  /\ ~canPushToTalk

(***************************************************************************)
(* Claims about the tool dispatcher (checked under SpecTool).              *)
(***************************************************************************)
\* The steps of each handler whose failure makes the handler throw or reject.
ThrowingSteps(name) ==
  CASE name = "calculator" -> {}
    [] name = "set_memory" -> {"local_storage"}
    [] name = "get_weather" -> {"fetch", "parse", "no_current"}
    [] name = "get_time" -> {"location", "fetch", "status", "parse"}

HasError(out) == "error" \in DOMAIN out.output

\* C5, as stated: whenever a step of the handler failed, the result of the
\* invocation has an 'error' field.
C5_EveryFailureYieldsError ==
  \A i \in 1..Len(toolOutput) : toolOutput[i].failed # {} => HasError(toolOutput[i])

\* C5, amended: every invocation that ends, ends with a function_call_output;
\* the output has an 'error' field exactly when a throwing step of the handler
\* failed (a failed persistence endpoint of set_memory, a forecast without a
\* temperature and a time response without a datetime are not such steps); and
\* no step of a tool disconnects the session.
C5_ErrorExactlyWhenHandlerThrows ==
  /\ [](\A i \in 1..Len(toolOutput) :
          HasError(toolOutput[i]) <=>
            (toolOutput[i].failed \cap ThrowingSteps(toolOutput[i].name) # {}))
  /\ [][InFlight(toolRuns') < InFlight(toolRuns) => (ToolResolved /\ Len(toolOutput') = 1)]_vars
  /\ [][NextTool => (clientConnected' /\ isConnected')]_vars

\* get_time got a response that was not ok and ended with an error result,
\* leaving the MemoryMap alone.
C5_Witness ==
  /\ Len(toolOutput) = 1
  /\ toolOutput[1].name = "get_time"
  /\ toolOutput[1].failed = {"status"}
  /\ HasError(toolOutput[1])
  /\ memoryKv = <<>>
  /\ clientConnected

\* C11 (under SpecReconnect): when a connect attempt ends in failure, the
\* connected flag is false and neither device is left acquired.
C11_FailedConnectRollsBack ==
  [][(ConnectRejected \/ ReconnectCatch) =>
       (~isConnected' /\ ~clientConnected' /\ ~recorder'.begun /\ ~player'.connected)]_vars

\* C12 (under SpecReconnect): every disconnect clears the conversation view,
\* the event log and the memory display, and goes on to end capture and to
\* interrupt playback, whatever the outcome of the transport close.
C12_DisconnectCompletesLocally ==
  [][DisconnectClick =>
       /\ items' = <<>> /\ realtimeEvents' = <<>> /\ memoryKv' = <<>>
       /\ BagIn([pc |-> "end"], discRuns')]_vars

\* C13 (under SpecTool): a set_memory call whose key was merged into the
\* MemoryMap ends with a success result, never with an 'error' field, whichever
\* persistence steps failed.
C13_SetMemoryAlwaysSucceeds ==
  \A i \in 1..Len(toolOutput) :
    toolOutput[i].name = "set_memory" =>
      (~HasError(toolOutput[i]) /\ toolOutput[i].output = [ok |-> TRUE])

\* C14 (under SpecMemory): on either path, the GET answered next after a POST
\* that answered {success: true} with body B answers {memory: B}, and the GET
\* answered next after a POST that answered {success: false} answers what the
\* GET before that POST answered.
C14_GetReturnsLastSuccessfulPost ==
  /\ \A i \in 1..(Len(http) - 1) :
       (/\ http[i].method = "POST" /\ http[i + 1].method = "GET"
        /\ http[i].path = http[i + 1].path
        /\ http[i].body.success)
         => http[i + 1].body = [memory |-> http[i].request]
  /\ \A i \in 1..(Len(http) - 2) :
       (/\ http[i].method = "GET" /\ http[i + 1].method = "POST" /\ http[i + 2].method = "GET"
        /\ http[i].path = http[i + 1].path /\ http[i].path = http[i + 2].path
        /\ ~http[i + 1].body.success)
         => http[i + 2].body = http[i].body

(***************************************************************************)
(* Claims about the side effects of the event pipeline.                    *)
(***************************************************************************)
\* C15 (under SpecEvents): whether or not the event is merged into the entry
\* before it, handling a speech-started event leaves the session's modalities
\* at {audio, text}, and handling a rate-limit update with a 'requests' entry
\* leaves the projection of that entry under requests_rate_limit.
C15_SideEffectsOnEveryEvent ==
  [][\A ev \in EventsAt(evSeq + 1) :
       (evSeq < MaxEvents /\ OnRealtimeEvent(ev)) =>
         /\ (ev.type = SPEECH_STARTED) => (modalities' = AllModalities)
         /\ (ev.type = RATE_LIMITS_UPDATED /\ ev.has_rate_limits
               /\ RequestsIdx(ev.rate_limits) # {}) =>
              /\ "requests_rate_limit" \in DOMAIN memoryKv'
              /\ memoryKv'["requests_rate_limit"] = FormattedLimit(FindRequests(ev.rate_limits))]_vars

\* C16 (under SpecEvents): handling a rate-limit update that lacks the expected
\* shape (no rate_limits, rate_limits not a list, no 'requests' entry, or a
\* 'requests' entry without reset_seconds) logs the event, by a new entry or by
\* the count of the last one, leaves the MemoryMap as it was and leaves the
\* pipeline able to handle the events after it.
LacksShape(ev) ==
  /\ ev.type = RATE_LIMITS_UPDATED
  /\ \/ ~ev.has_rate_limits
     \/ ~ev.is_list
     \/ RequestsIdx(ev.rate_limits) = {}
     \/ "reset_seconds" \notin DOMAIN FindRequests(ev.rate_limits)

C16_MalformedUpdateIsHarmless ==
  [][\A ev \in EventsAt(evSeq + 1) \cup MalformedAt(evSeq + 1) :
       (evSeq < MaxEvents /\ LacksShape(ev) /\ OnRealtimeEvent(ev)) =>
         /\ realtimeEvents' # realtimeEvents
         /\ memoryKv' = memoryKv
         /\ ~renderError']_vars

\* The arrival number of the first event of the i-th run since the last reset.
RECURSIVE RunStart(_)
RunStart(i) == IF i = 1 THEN 1 ELSE RunStart(i - 1) + runs[i - 1].n

\* C17 (under SpecLog): the i-th log entry holds the envelope of the first event
\* of the i-th run, so the entries are in the arrival order of those events; and
\* merging an event into the last entry keeps the length of the log, every
\* earlier entry and the last entry's envelope, changing only its count.
C17_MergeKeepsFirstOfRun ==
  /\ [](/\ Len(realtimeEvents) = Len(runs)
        /\ \A i \in 1..Len(realtimeEvents) : realtimeEvents[i].event.seq = RunStart(i))
  /\ [][\A ev \in EventsAt(evSeq + 1) :
          (evSeq < MaxEvents /\ SameTypeAsLast(realtimeEvents, ev) /\ OnRealtimeEvent(ev)) =>
            /\ Len(realtimeEvents') = Len(realtimeEvents)
            /\ \A i \in 1..(Len(realtimeEvents) - 1) : realtimeEvents'[i] = realtimeEvents[i]
            /\ realtimeEvents'[Len(realtimeEvents)].event = realtimeEvents[Len(realtimeEvents)].event
            /\ realtimeEvents'[Len(realtimeEvents)].count # realtimeEvents[Len(realtimeEvents)].count]_vars

\* The second entry of the log has absorbed the third and the fourth event.
C17_Witness ==
  /\ Len(realtimeEvents) = 2
  /\ evSeq = 4
  /\ realtimeEvents[2].event.seq = 2
  /\ CountOf(realtimeEvents[2]) > 1

(***************************************************************************)
(* Claims about the start and the end of capture.                          *)
(***************************************************************************)
\* C18 (under SpecCapture): capture starts only as the last step of a handler
\* that has interrupted playback and, a track having been returned, has sent
\* cancelResponse for it: a step that takes capture from not recording to
\* recording is the record step of such a startRecording call.
C18_CaptureStartInterruptsFirst ==
  [][(recorder.status # "recording" /\ recorder'.status = "recording") =>
       \E run \in BagToSet(startRuns) :
         run.pc = "record" /\ startRuns' = Del(startRuns, run)]_vars

\* C19 (under SpecPushToTalk): once the calls of a press/release pair have all
\* settled, the pair having begun with no call in flight, capture is not
\* recording and exactly one createResponse() was sent since the press.
C19_ReleaseEndsCapture ==
  (gesture.phase = "released" /\ Quiescent) =>
    (recorder.status # "recording" /\ gesture.created = 1)

\* C20 (under SpecCapture): the session's turn detection becomes manual only
\* in or after the step that leaves capture not recording, so a switch to
\* manual on a recording capture pauses it before the session is updated; and
\* a frame is appended only while the last call on the capture pipeline is
\* record(), so none is appended from the completion of that pause up to the
\* next start of capture.
C20_SwitchToManualPausesFirst ==
  /\ [][(turnDetection # "none" /\ turnDetection' = "none") =>
          recorder'.status # "recording"]_vars
  /\ [][(ChangePause /\ turnDetection' # turnDetection) => recorder'.lastCall = "pause"]_vars
  /\ [][FrameDelivered => recorder.lastCall = "record"]_vars

\* A switch to manual paused a capture that had delivered a frame, and updated the session.
C20_Witness ==
  /\ switchPhase = "paused"
  /\ recorder = [begun |-> TRUE, status |-> "paused", lastCall |-> "pause"]
  /\ turnDetection = "none"
  /\ frames > 0

(***************************************************************************)
(* Claims about connects that complete late.                               *)
(***************************************************************************)
\* C21 (under SpecReconnect): from a manual disconnect whose close succeeded to
\* the next connect request, the transport is not connected, and once the
\* disconnect has completed capture is not recording.
C21_LateConnectHasNoEffect ==
  /\ discPhase \in {"pending", "done"} => ~clientConnected
  /\ discPhase = "done" => recorder.status # "recording"

(***************************************************************************)
(* Claims about the conversation view (checked under SpecView).            *)
(***************************************************************************)
\* C22: the view changes only in a step of a protocol notification handler or
\* of a connect or disconnect reset; and the step in which a deletion is
\* requested hands the id of a rendered item to deleteItem and leaves the view
\* and the protocol layer's conversation as they were, so the item is still in
\* the view when its deletion has been forwarded.
C22_DeleteIsForwardedFirst ==
  /\ [][items' # items =>
          (ConversationUpdated \/ ItemDeleted \/ DecodeResolved
             \/ ConnectClick \/ DisconnectClick)]_vars
  /\ [][(deleteSent' # deleteSent /\ ~DisconnectClick) =>
          /\ \E id \in Ids(items) : deleteSent' = deleteSent \cup {id}
          /\ items' = items
          /\ convItems' = convItems]_vars

\* A deleted item has left the protocol layer's conversation and the view.
C22_Witness ==
  /\ clientConnected
  /\ deleteSent = {1}
  /\ convItems = <<>>
  /\ items = <<>>
  /\ files[1] = 1

\* C23: no item of the conversation has its decoded handle set more than once:
\* a notification for a completed item that already has a handle decodes
\* nothing and leaves the handle as it is.
C23_DecodedOnce == \A i \in 1..MaxItems : files[i] <= 1

\* C24: each set_memory call persists the merged map to exactly one store, taken in
\* priority order: the relay server when configured and accepting, else the memory
\* server when accepting, and the local cache only when neither endpoint accepted.
C24_OneStoreInPriorityOrder ==
  (toolOutput # <<>> /\ toolOutput[1].name = "set_memory") =>
    LET wrote == toolOutput[1].wrote
        failed == toolOutput[1].failed
    IN /\ Cardinality(wrote) <= 1
       /\ "server" \in wrote => (relayUrl = "" \/ "relay" \in failed)
       /\ "local" \in wrote => "server" \in failed

\* C25: a call of a geo/time lookup tool (get_weather, get_time) sets the current
\* location shown by the page to the location asked for, before the lookup is made.
C25_LookupSetsCurrentLocation ==
  [][\A run \in BagToSet(toolRuns') :
       (/\ InFlight(toolRuns') > InFlight(toolRuns)
        /\ CopiesIn(run, toolRuns') > CopiesIn(run, toolRuns)
        /\ run.name \in {"get_weather", "get_time"})
       => /\ "location" \in DOMAIN coords'
          /\ coords'.location = run.args.location
          /\ marker' # <<>>
          /\ marker'[1].location = run.args.location]_vars

\* C26: record() is invoked only when the capture pipeline is not recording, whether
\* by connect or reconnect, by the start of a push-to-talk turn or by a switch to
\* server-vad.
C26_RecordOnlyWhenNotRecording ==
  [][(ConnRecord \/ StartRecord \/ ChangeRecord) => recorder.status # "recording"]_vars

\* C27: the map last written to the external store holds every key of an earlier
\* set_memory call that an endpoint accepted, across disconnects and new connects.
C27_ExternalStoreKeepsKeys == persist.accepted \subseteq DOMAIN persist.external

\* C28: once two overlapping set_memory calls with different keys have completed,
\* both accepted, the MemoryMap and the external store hold both keys.
C28_ConcurrentCallsKeepBothKeys ==
  (toolRuns = EmptyBag /\ persist.accepted = MemoryKeys) =>
    /\ MemoryKeys \subseteq DOMAIN memoryKv
    /\ MemoryKeys \subseteq DOMAIN persist.external

\* C29: when neither endpoint answers at startup, the MemoryMap becomes the map
\* that the previous session left in the local cache.
C29_FallbackRestoresPreviousMap ==
  [][(persist.from = "" /\ persist'.from = "localStorage") => memoryKv' = persist.previous]_vars

=============================================================================
